---- MODULE Spec2Model ----
(***************************************************************************)
(* Model of the NMF deblender of lsst.meas.deblender (nmf.py): the         *)
(* symmetry operators built from a footprint's peak geometry, the three    *)
(* update rules of the factorization and the loop of                       *)
(* MulticolorCalExp.deblend.                                               *)
(*                                                                         *)
(* Arrays are functions over 0-based index ranges, as in numpy.  A real    *)
(* number is an exact fraction <<n, d>> in lowest terms with d > 0; d = 0  *)
(* encodes the non-finite floats (<<1,0>> = inf, <<-1,0>> = -inf,          *)
(* <<0,0>> = nan).  The symmetry operators hold the integers 0, 1, -2, ... *)
(* and are kept as integer matrices.                                       *)
(***************************************************************************)
EXTENDS Integers, Sequences, FiniteSets, TLC

VARIABLES
    pc,          \* position in the sequence of calls
    fpShape,     \* <<height, width>> of the footprint's bounding box
    peaks,       \* the footprint's peaks, <<px, py>> relative to the bounding box
    includeBkg,  \* whether the last row of H is the background
    H,           \* the intensity matrix being worked on (newH in deblend)
    symmetryOp,  \* the list returned by getSymmetryOperator
    diffOp,      \* the list returned by getSymmetryDiffOp
    Hdiff,       \* the array returned by getIntensityDiff
    err,         \* the exception a call ended with, "none" otherwise
    data,        \* the data matrix A (bands x pixels)
    offset,      \* the constant added to the data
    initW,       \* self.initW
    initH,       \* self.initH
    W,           \* the SED matrix being worked on (newW in deblend)
    nmfUpdateFunc, \* the update rule passed to deblend
    updateKwargs,  \* the keyword arguments deblend forwards to the rule
    steps,       \* the number of iterations asked of deblend
    iter,        \* the iterations done so far
    templates,   \* debResult: templates[p][n] of peak p in band n
    stepUsed,    \* the step sizes the last gradientDescent call was entered with
    template,    \* the last reconstructTemplate call: its arguments and its result
    parent,      \* the DeblendedParent of proximal.py: its attributes and last call
    lastCall,    \* the deblend call that returned last: its arguments, self.W, self.H
                 \* and the residual difference it logged for every band
    exposure,    \* the ExposureDeblend of proximal.py: mergedDet, the condition of
                 \* the deblend call under way, its loop index and deblendedParents
    displayKwargs, \* the dict built once by `displayKwargs=dict()` in the
                 \* signature of MulticolorCalExp.deblend
    calls        \* the deblend calls of every caller: the object, the arguments,
                 \* the position in the display block and what was plotted

opVars == <<symmetryOp, Hdiff>>
fpVars == <<fpShape, peaks, includeBkg>>
solveVars == <<data, offset, initW, initH, W, nmfUpdateFunc, updateKwargs, steps, iter, templates,
              stepUsed>>
vars == <<pc, fpShape, peaks, includeBkg, H, symmetryOp, diffOp, Hdiff, err,
          data, offset, initW, initH, W, nmfUpdateFunc, updateKwargs, steps, iter, templates,
          stepUsed, template, parent, lastCall, exposure, displayKwargs, calls>>
\* what the calls made after the factorization leave behind
outVars == <<template, parent, lastCall, exposure, displayKwargs, calls>>

\* ------------------------------------------------------------------ bounds
MaxHeight == 3
MaxWidth == 2
MaxPeaks == 2
MaxMag == 1000000000
MaxSteps == 2
MaxSources == 3
MaxObjects == 2
MaxCallers == 2
\* the regulariser 1e-9 of the update rules is the fraction 1/EpsDen
EpsDen == 10

\* ------------------------------------------------------ exact arithmetic
Abs(x) == IF x < 0 THEN -x ELSE x
Sgn(x) == IF x < 0 THEN -1 ELSE IF x = 0 THEN 0 ELSE 1

RECURSIVE GCD(_, _)
GCD(a, b) == IF b = 0 THEN a ELSE GCD(b, a % b)

\* a result whose numerator or denominator would leave [-MaxMag, MaxMag]
Ovf == <<0, -1>>
NaN == <<0, 0>>
Zero == <<0, 1>>
One == <<1, 1>>
R(n) == <<n, 1>>

IsOvf(x) == x[2] < 0
IsFinite(x) == x[2] > 0
IsNaN(x) == x = NaN

MulOK(a, b) == a = 0 \/ b = 0 \/ Abs(a) <= MaxMag \div Abs(b)

RNeg(x) == IF IsOvf(x) THEN Ovf ELSE <<-x[1], x[2]>>
RAbs(x) == IF IsOvf(x) THEN Ovf ELSE <<Abs(x[1]), x[2]>>

\* n1/d1 * n2/d2 for factors without a common divisor across the product
MulCross(n1, d1, n2, d2) ==
    IF MulOK(n1, n2) /\ MulOK(d1, d2) THEN <<n1 * n2, d1 * d2>> ELSE Ovf
\* x * y with g1 = gcd(|x[1]|, y[2]) and g2 = gcd(|y[1]|, x[2]) cancelled first
MulFinite(x, y, g1, g2) ==
    MulCross(x[1] \div g1, x[2] \div g2, y[1] \div g2, y[2] \div g1)
RMul(x, y) ==
    IF IsOvf(x) \/ IsOvf(y) THEN Ovf
    ELSE IF x[2] = 0 \/ y[2] = 0 THEN <<Sgn(x[1]) * Sgn(y[1]), 0>>
    ELSE MulFinite(x, y, GCD(Abs(x[1]), y[2]), GCD(Abs(y[1]), x[2]))

\* n/d in lowest terms, h being gcd(|n|, d)
Lowest(n, d, h) == IF Abs(n \div h) <= MaxMag THEN <<n \div h, d \div h>> ELSE Ovf
LowestTerms(n, d) == Lowest(n, d, GCD(Abs(n), d))
\* x + y over the common denominator x[2]*a = y[2]*b
AddOver(x, y, a, b) ==
    IF MulOK(x[1], a) /\ MulOK(y[1], b) /\ MulOK(x[2], a)
    THEN LowestTerms(x[1] * a + y[1] * b, x[2] * a)
    ELSE Ovf
AddFinite(x, y, g) == AddOver(x, y, y[2] \div g, x[2] \div g)
RAdd(x, y) ==
    IF IsOvf(x) \/ IsOvf(y) THEN Ovf
    ELSE IF x[2] = 0 /\ y[2] = 0 THEN (IF x = y THEN x ELSE NaN)
    ELSE IF x[2] = 0 THEN x
    ELSE IF y[2] = 0 THEN y
    ELSE AddFinite(x, y, GCD(x[2], y[2]))

RSub(x, y) == RAdd(x, RNeg(y))

\* 1/x as IEEE division does it: 1/0 = inf, 1/inf = 0, 1/nan = nan
RInv(x) ==
    IF IsOvf(x) THEN Ovf
    ELSE IF x[2] = 0 THEN (IF x[1] = 0 THEN NaN ELSE Zero)
    ELSE IF x[1] = 0 THEN <<1, 0>>
    ELSE <<Sgn(x[1]) * x[2], Abs(x[1])>>

RDiv(x, y) == RMul(x, RInv(y))

IsNonNeg(x) == x[2] >= 0 /\ ~IsNaN(x) /\ x[1] >= 0
IsPos(x) == x[2] >= 0 /\ x[1] > 0
IsNeg(x) == x[2] >= 0 /\ x[1] < 0

None == <<>>

\* ------------------------------------------------------ numpy on arrays
VLen(v) == Cardinality(DOMAIN v)
NRows(M) == Cardinality(DOMAIN M)
NCols(M) == IF NRows(M) = 0 THEN 0 ELSE Cardinality(DOMAIN M[0])
\* np.size of a two-dimensional array
NpSize(M) == NRows(M) * NCols(M)
\* M[n:]
RowsFrom(M, n) == [i \in 0..(NRows(M) - n - 1) |-> M[i + n]]

RECURSIVE SumTo(_, _)
\* sum of f[0..n-1] for a function of fractions
SumTo(f, n) == IF n = 0 THEN Zero ELSE RAdd(SumTo(f, n - 1), f[n - 1])

RECURSIVE ISumTo(_, _)
ISumTo(f, n) == IF n = 0 THEN 0 ELSE ISumTo(f, n - 1) + f[n - 1]

\* np.eye(n), np.fliplr, and the product of two integer matrices
Eye(n) == [i \in 0..(n - 1) |-> [j \in 0..(n - 1) |-> IF i = j THEN 1 ELSE 0]]
Fliplr(M) == [i \in DOMAIN M |-> [j \in DOMAIN M[i] |-> M[i][NCols(M) - 1 - j]]]
IMatMul(X, Y) ==
    [i \in DOMAIN X |-> [j \in DOMAIN Y[0] |->
        ISumTo([k \in DOMAIN Y |-> X[i][k] * Y[k][j]], NRows(Y))]]
\* operator . vector, for an integer operator and a vector of fractions
OpDot(D, v) ==
    [i \in DOMAIN D |-> SumTo([k \in DOMAIN v |-> RMul(R(D[i][k]), v[k])], VLen(v))]

\* matrices of fractions
Transpose(X) == [j \in DOMAIN X[0] |-> [i \in DOMAIN X |-> X[i][j]]]
MatMul(X, Y) ==
    [i \in DOMAIN X |-> [j \in DOMAIN Y[0] |->
        SumTo([k \in DOMAIN Y |-> RMul(X[i][k], Y[k][j])], NRows(Y))]]
\* elementwise X op Y and X op scalar
EMul(X, Y) == [i \in DOMAIN X |-> [j \in DOMAIN X[i] |-> RMul(X[i][j], Y[i][j])]]
EDiv(X, Y) == [i \in DOMAIN X |-> [j \in DOMAIN X[i] |-> RDiv(X[i][j], Y[i][j])]]
EAdd(X, Y) == [i \in DOMAIN X |-> [j \in DOMAIN X[i] |-> RAdd(X[i][j], Y[i][j])]]
ESub(X, Y) == [i \in DOMAIN X |-> [j \in DOMAIN X[i] |-> RSub(X[i][j], Y[i][j])]]
AddScalar(X, c) == [i \in DOMAIN X |-> [j \in DOMAIN X[i] |-> RAdd(X[i][j], c)]]
Scale(X, c) == [i \in DOMAIN X |-> [j \in DOMAIN X[i] |-> RMul(c, X[i][j])]]
\* X / n and (X.T * n).T for one factor n[j] per column of X, resp. row of X
DivCols(X, n) == [i \in DOMAIN X |-> [j \in DOMAIN X[i] |-> RDiv(X[i][j], n[j])]]
MulRows(X, n) == [i \in DOMAIN X |-> [j \in DOMAIN X[i] |-> RMul(X[i][j], n[i])]]
HasOvf(X) == \E i \in DOMAIN X : \E j \in DOMAIN X[i] : IsOvf(X[i][j])
NonNegM(X) == \A i \in DOMAIN X : \A j \in DOMAIN X[i] : IsNonNeg(X[i][j])

\* ------------------------------------------------------ symmetry operators
\* the range [min, max) of one axis (nmf.py lines 260-277)
AxisMin(p, size) == IF 2 * p < size - 1 THEN 0
                    ELSE IF 2 * p > size - 1 THEN 2 * p - size + 1 ELSE 0
\* the upper end short by one pixel left of the midpoint
AxisMax_shortByOne(p, size) == IF 2 * p < size - 1 THEN 2 * p
                               ELSE IF 2 * p > size - 1 THEN size ELSE size
AxisMax(p, size) == IF 2 * p < size - 1 THEN 2 * p + 1
                    ELSE IF 2 * p > size - 1 THEN size ELSE size

\* the block with the diagonal of the extra columns left in place
subOpOf_keepDiag(fpWidth, tWidth, tHeight) ==
    Fliplr(Eye((tHeight - 1) * fpWidth + tWidth))

\* the block that reverses the sub-rectangle (nmf.py lines 279-292)
subOpOf(fpWidth, tWidth, tHeight) ==
    LET extraWidth == fpWidth - tWidth
        pixels == (tHeight - 1) * fpWidth + tWidth
        zeroed == {(i + 1) * tWidth + (i * extraWidth) + j :
                      i \in 0..(tHeight - 2), j \in 0..(extraWidth - 1)}
        eye == [r \in 0..(pixels - 1) |-> [c \in 0..(pixels - 1) |->
                   IF r = c /\ r \notin zeroed THEN 1 ELSE 0]]
    IN  Fliplr(eye)

\* the centred case without the column flip
getPeakSymmetryOperator_noFlip(row, shape, px, py) ==
    IF 2 * px = shape[2] - 1 /\ 2 * py = shape[1] - 1
    THEN Eye(NpSize(row))
    ELSE Fliplr(Eye(shape[1] * shape[2]))

getPeakSymmetryOperator(row, shape, px, py) ==
    IF 2 * px = shape[2] - 1 /\ 2 * py = shape[1] - 1
    THEN Fliplr(Eye(NpSize(row)))
    ELSE LET ymin == AxisMin(py, shape[1])
             ymax == AxisMax(py, shape[1])
             xmin == AxisMin(px, shape[2])
             xmax == AxisMax(px, shape[2])
             fpHeight == shape[1]
             fpWidth == shape[2]
             fpSize == fpWidth * fpHeight
             tWidth == xmax - xmin
             tHeight == ymax - ymin
             subOp == subOpOf(fpWidth, tWidth, tHeight)
             smin == ymin * fpWidth + xmin
             smax == (ymax - 1) * fpWidth + xmax
         IN  [r \in 0..(fpSize - 1) |-> [c \in 0..(fpSize - 1) |->
                 IF r >= smin /\ r < smax /\ c >= smin /\ c < smax
                 THEN subOp[r - smin][c - smin] ELSE 0]]

\* one operator per peak of the footprint, built from the slice H[n:]
getSymmetryOperator(Hm, shape, pks) ==
    [n \in 0..(VLen(pks) - 1) |->
        getPeakSymmetryOperator(RowsFrom(Hm, n), shape, pks[n][1], pks[n][2])]

\* the difference operator with S subtracted once: I + S.S - S
diffOf_singleS(sk) ==
    LET n == NRows(sk)
        sq == IMatMul(sk, sk)
    IN  [i \in 0..(n - 1) |-> [j \in 0..(n - 1) |->
            (IF i = j THEN 1 ELSE 0) + sq[i][j] - sk[i][j]]]

\* scipy.sparse.eye(sk.shape[0]) + sk.dot(sk) - 2*sk
diffOf(sk) ==
    LET n == NRows(sk)
        sq == IMatMul(sk, sk)
    IN  [i \in 0..(n - 1) |-> [j \in 0..(n - 1) |->
            (IF i = j THEN 1 ELSE 0) + sq[i][j] - 2 * sk[i][j]]]

getSymmetryDiffOp(Hm, shape, pks) ==
    LET symmetryObj == getSymmetryOperator(Hm, shape, pks)
    IN  [k \in DOMAIN symmetryObj |-> diffOf(symmetryObj[k])]

\* diffOp[k].dot(H[k]) raises ValueError when the operator's column count
\* differs from the length of the row
DotFails(Hm, dOp) == \E k \in DOMAIN dOp : NCols(dOp[k]) # NCols(Hm)

getIntensityDiff(Hm, dOp) ==
    [k \in DOMAIN Hm |->
        IF k \in DOMAIN dOp THEN OpDot(dOp[k], Hm[k])
        ELSE [p \in DOMAIN Hm[k] |-> Zero]]

\* ------------------------------------------------------------ update rules
\* numpy computes an array when the expression is met: every entry once
Array(X) == IF X = X THEN X ELSE X

Eps == <<1, EpsDen>>

\* normFactor = np.sum(np.abs(W), axis=0); normFactor[normFactor==0] = 1
AbsNormFactor(Wm) ==
    [j \in DOMAIN Wm[0] |->
        LET n == SumTo([i \in DOMAIN Wm |-> RAbs(Wm[i][j])], NRows(Wm))
        IN  IF n = Zero THEN One ELSE n]
\* W = W/normFactor
NormaliseAbs(Wm) == DivCols(Wm, Array(AbsNormFactor(Wm)))

\* W * numerator/denom written as a subtractive step
MultStep_subtract(X, numerator, denom) == ESub(X, EDiv(EMul(X, numerator), denom))

\* X * numerator/denom (nmf.py lines 349 and 362)
MultStep(X, numerator, denom) == EDiv(EMul(X, numerator), denom)

\* lines 347 to 353 of multiplicativeUpdate: the new, normalised W
updateW(A, Wm, Hm) ==
    NormaliseAbs(Array(MultStep(Wm, Array(MatMul(A, Transpose(Hm))),
        Array(AddScalar(MatMul(Array(MatMul(Wm, Hm)), Transpose(Hm)), Eps)))))

\* lines 355 to 362 of multiplicativeUpdate: the new H, W being the new W
updateH(A, Wm, Hm, beta, dOp) ==
    MultStep(Hm, Array(MatMul(Transpose(Wm), A)),
        IF dOp # None
        THEN Array(AddScalar(EAdd(Array(MatMul(Array(MatMul(Transpose(Wm), Wm)), Hm)),
                                  Scale(getIntensityDiff(Hm, dOp), beta)), Eps))
        ELSE Array(AddScalar(MatMul(Array(MatMul(Transpose(Wm), Wm)), Hm), Eps)))

\* multiplicativeUpdate once its new W is computed
updateWithW(A, Wm, Hm, beta, dOp) ==
    IF dOp # None /\ DotFails(Hm, dOp)
    THEN [W |-> Wm, H |-> Hm, err |-> "ValueError"]
    ELSE [W |-> Wm, H |-> updateH(A, Wm, Hm, beta, dOp), err |-> "none"]

multiplicativeUpdate(A, Wm, Hm, off, bkg, beta, dOp) ==
    updateWithW(A, Array(updateW(A, Wm, Hm)), Hm, beta, dOp)

\* determinant and inverse of a 2x2 matrix
Det2(M) == RSub(RMul(M[0][0], M[1][1]), RMul(M[0][1], M[1][0]))
Inv2(M, det) ==
    [i \in 0..1 |-> [j \in 0..1 |->
        RDiv(IF i = j THEN M[1 - i][1 - j] ELSE RNeg(M[i][j]), det)]]

\* np.linalg.inv of a 1x1 or 2x2 matrix; None when the matrix is singular
\* and numpy raises LinAlgError
LinalgInv(M) ==
    IF NRows(M) = 1
    THEN IF M[0][0] = Zero THEN None ELSE [i \in {0} |-> [j \in {0} |-> RInv(M[0][0])]]
    ELSE IF Det2(M) = Zero THEN None ELSE Inv2(M, Det2(M))

\* np.linalg.inv(np.dot(X, X.T) + 1e-9)
RegInv(X) == Array(LinalgInv(Array(AddScalar(MatMul(X, Transpose(X)), Eps))))

\* line 375 of inverseUpdate, inv2 being the inverse of W.T.W + 1e-9
inverseH(A, Wm, Hm, inv2) ==
    IF inv2 = None
    THEN [W |-> Wm, H |-> Hm, err |-> "LinAlgError"]
    ELSE [W |-> Wm, H |-> MatMul(inv2, MatMul(Transpose(Wm), A)), err |-> "none"]

inverseWithW(A, Wm, Hm) == inverseH(A, Wm, Hm, RegInv(Transpose(Wm)))

\* lines 371 to 375 of inverseUpdate, inv1 being the inverse of H.H.T + 1e-9
inverseW(A, Wm, Hm, inv1) ==
    IF inv1 = None
    THEN [W |-> Wm, H |-> Hm, err |-> "LinAlgError"]
    ELSE inverseWithW(A,
            Array(NormaliseAbs(Array(Transpose(MatMul(inv1, MatMul(Hm, Transpose(A))))))), Hm)

inverseUpdate(A, Wm, Hm, off, bkg) == inverseW(A, Wm, Hm, RegInv(Hm))

\* stepW=.001, stepH=.001
DefaultStep == <<1, 1000>>

\* derivH of gradientDescent, resid being -A + WH
derivHOf(Wm, Hm, resid, beta, dOp) ==
    IF dOp # None
    THEN EAdd(MatMul(Transpose(Wm), resid), Scale(getIntensityDiff(Hm, dOp), beta))
    ELSE MatMul(Transpose(Wm), resid)

\* lines 391 to 395 of gradientDescent, Hnew being the new H.  The fields
\* stepW and stepH of the result are the locals of the same name when the
\* function returns; only W and H are returned to the caller
descendW(Wm, Hnew, resid, stepW, stepH) ==
    [W |-> ESub(Wm, Scale(MatMul(resid, Transpose(Hnew)), stepW)), H |-> Hnew,
     err |-> "none", stepW |-> RDiv(stepW, R(2)), stepH |-> RDiv(stepH, R(2))]

\* lines 385 to 389 of gradientDescent
descendH(Wm, Hm, resid, stepW, stepH, beta, dOp) ==
    descendW(Wm, Array(ESub(Hm, Scale(Array(derivHOf(Wm, Hm, resid, beta, dOp)), stepH))),
             resid, stepW, stepH)

gradientDescent(A, Wm, Hm, off, bkg, stepW, stepH, beta, dOp) ==
    IF dOp # None /\ DotFails(Hm, dOp)
    THEN [W |-> Wm, H |-> Hm, err |-> "ValueError", stepW |-> stepW, stepH |-> stepH]
    ELSE descendH(Wm, Hm, Array(ESub(Array(MatMul(Wm, Hm)), A)), stepW, stepH, beta, dOp)

\* ---------------------------------------------------- initial estimate
\* np.linalg.pinv of a matrix of one or two rows: Ht (H Ht)^-1 at full row
\* rank, Ht / |H|^2 at rank one, 0 at rank zero
ZerosLike(X) == [i \in DOMAIN X |-> [j \in DOMAIN X[i] |-> Zero]]
\* the pseudo-inverse from Ht = H.T and G = H.H.T, for an H of one or two rows
PinvOf(Ht, G) ==
    IF NRows(G) = 1
    THEN IF G[0][0] = Zero THEN ZerosLike(Ht) ELSE Scale(Ht, RInv(G[0][0]))
    ELSE IF Det2(G) # Zero THEN MatMul(Ht, Array(Inv2(G, Det2(G))))
         ELSE IF RAdd(G[0][0], G[1][1]) = Zero THEN ZerosLike(Ht)
              ELSE Scale(Ht, RInv(RAdd(G[0][0], G[1][1])))
Pinv(Hm) == PinvOf(Transpose(Hm), Array(MatMul(Hm, Transpose(Hm))))

\* normFactor = np.sum(W, axis=0); normFactor[normFactor==0] = 1
SumNormFactor(Wm) ==
    [j \in DOMAIN Wm[0] |->
        LET n == SumTo([i \in DOMAIN Wm |-> Wm[i][j]], NRows(Wm))
        IN  IF n = Zero THEN One ELSE n]

\* lines 66 to 80 of createInitWH: the mean template of every peak and the
\* background row.  debResult[p][n] is the template of peak p in band n,
\* laid out on the footprint's bounding box
templateH(A, debResult, off, bkg) ==
    [p \in 0..(VLen(debResult) - 1 + (IF bkg THEN 1 ELSE 0)) |->
        IF p = VLen(debResult)
        THEN [x \in DOMAIN A[0] |-> off]
        ELSE [x \in DOMAIN A[0] |->
                RDiv(SumTo([n \in DOMAIN A |-> debResult[p][n][x]], NRows(A)), R(NRows(A)))]]

\* createInitWH returning the mean templates themselves as H
normalised_keepH(Wm, Hm, normFactor) ==
    [W |-> DivCols(Wm, normFactor), H |-> Hm]
\* lines 85 to 91 of createInitWH
normalised(Wm, Hm, normFactor) ==
    [W |-> DivCols(Wm, normFactor), H |-> MulRows(Hm, normFactor)]
normaliseWH(Wm, Hm) == normalised(Wm, Hm, Array(SumNormFactor(Wm)))
\* lines 82 to 91 of createInitWH
solveW(A, Hm) == normaliseWH(Array(MatMul(A, Array(Pinv(Hm)))), Hm)

createInitWH(A, debResult, off, bkg) ==
    solveW(A, Array(templateH(A, debResult, off, bkg)))

\* np.min(data) and the shift of initNMFparams (nmf.py lines 242-246)
RLess(x, y) == x[1] * y[2] < y[1] * x[2]
MinOf(A) ==
    LET vals == {A[i][j] : i \in DOMAIN A, j \in DOMAIN A[0]}
    IN  CHOOSE m \in vals : \A v \in vals : ~RLess(v, m)
OffsetOf(A, offsetData) ==
    IF offsetData /\ \E i \in DOMAIN A : \E j \in DOMAIN A[0] : IsNeg(A[i][j])
    THEN RNeg(MinOf(A)) ELSE Zero

\* data + offset
shiftData(A, off) == IF off = Zero THEN A ELSE AddScalar(A, off)
withOffset(A, WH, off) == [data |-> A, W |-> WH.W, H |-> WH.H, offset |-> off]
shifted(A, debResult, bkg, off) ==
    withOffset(A, createInitWH(A, debResult, off, bkg), off)
\* initNMFparams: data, W, H and offset of its result
initNMFparams(A, debResult, bkg, offsetData) ==
    shifted(Array(shiftData(A, OffsetOf(A, offsetData))), debResult, bkg,
            OffsetOf(A, offsetData))

\* ------------------------------------------------- footprints and rows
Shapes == (1..MaxHeight) \X (1..MaxWidth)
Pixels(shape) == shape[1] * shape[2]
\* peak positions <<px, py>> relative to the bounding box
PeakPos(shape) == (0..(shape[2] - 1)) \X (0..(shape[1] - 1))
\* the peaks of a footprint are distinct pixels; lists are drawn in ascending
\* pixel order
PeakLists(shape) ==
    {[k \in 0..(Cardinality(S) - 1) |->
        LET p == CHOOSE q \in S : Cardinality({r \in S : r < q}) = k
        IN  <<p % shape[2], p \div shape[2]>>] :
     S \in {T \in SUBSET (0..(Pixels(shape) - 1)) :
               Cardinality(T) >= 1 /\ Cardinality(T) <= MaxPeaks}}
ConstRow(P, x) == [p \in 0..(P - 1) |-> x]
\* the all-zero row and the rows with a single lit pixel
UnitRows(P) ==
    {ConstRow(P, Zero)} \cup
    {[p \in 0..(P - 1) |-> IF p = q THEN One ELSE Zero] : q \in 0..(P - 1)}
\* an intensity matrix whose source rows are v and whose background row is flat
SourceRows(v, nPeaks, bkg) ==
    [k \in 0..(nPeaks - 1 + (IF bkg THEN 1 ELSE 0)) |->
        IF k < nPeaks THEN v ELSE ConstRow(VLen(v), One)]
\* ------------------------------------------- operator construction calls
InitOp ==
    /\ pc = "start"
    /\ fpShape \in Shapes
    /\ peaks \in PeakLists(fpShape)
    /\ includeBkg \in BOOLEAN
    /\ H = SourceRows(ConstRow(Pixels(fpShape), One), VLen(peaks), includeBkg)
    /\ symmetryOp = None
    /\ diffOp = None
    /\ Hdiff = None
    /\ err = "none"
    /\ data = None /\ offset = Zero /\ initW = None /\ initH = H /\ W = None
    /\ nmfUpdateFunc = "none" /\ updateKwargs = None /\ steps = 0 /\ iter = 0
    /\ templates = None /\ stepUsed = None
    /\ template = None
    /\ parent = None
    /\ lastCall = None /\ exposure = None
    /\ displayKwargs = None /\ calls = None

\* getPeakSymmetryOperator called with the single row H[0] and peak 0
GetPeakSymmetryOperator ==
    /\ pc = "start"
    /\ symmetryOp' = [n \in {0} |->
          getPeakSymmetryOperator([i \in {0} |-> H[0]], fpShape, peaks[0][1], peaks[0][2])]
    /\ pc' = "peakDone"
    /\ UNCHANGED <<fpShape, peaks, includeBkg, H, diffOp, Hdiff, err, solveVars, outVars>>

GetSymmetryOperator ==
    /\ pc = "start"
    /\ symmetryOp' = getSymmetryOperator(H, fpShape, peaks)
    /\ pc' = "symDone"
    /\ UNCHANGED <<fpShape, peaks, includeBkg, H, diffOp, Hdiff, err, solveVars, outVars>>

GetSymmetryDiffOp ==
    /\ pc = "start"
    /\ symmetryOp' = getSymmetryOperator(H, fpShape, peaks)
    /\ diffOp' = getSymmetryDiffOp(H, fpShape, peaks)
    /\ pc' = "diffDone"
    /\ UNCHANGED <<fpShape, peaks, includeBkg, H, Hdiff, err, solveVars, outVars>>

\* the operators were built from the initial H; getIntensityDiff applies them
\* to the current iterate, whose source rows are drawn here
GetIntensityDiff ==
    /\ pc = "diffDone"
    /\ \E v \in UnitRows(Pixels(fpShape)) :
          H' = SourceRows(v, VLen(peaks), includeBkg)
    /\ IF DotFails(H', diffOp)
       THEN err' = "ValueError" /\ Hdiff' = Hdiff
       ELSE err' = err /\ Hdiff' = getIntensityDiff(H', diffOp)
    /\ pc' = "applied"
    /\ UNCHANGED <<fpShape, peaks, includeBkg, symmetryOp, diffOp, solveVars, outVars>>

NextOp ==
    \/ GetPeakSymmetryOperator
    \/ GetSymmetryOperator
    \/ GetSymmetryDiffOp
    \/ GetIntensityDiff

SpecOp == InitOp /\ [][NextOp]_vars

\* ------------------------------------------------------- the deblend run
filters == <<"g", "r">>
Bands == 0..(Len(filters) - 1)
\* the footprints of the runs: one pixel, two pixels side by side, and a
\* column of three pixels
SolveShapes == {<<1, 1>>, <<1, 2>>, <<3, 1>>}
\* image rows: flat sky, the last pixel lit, and a flat negative row
DataRows(P) ==
    {ConstRow(P, One), [p \in 0..(P - 1) |-> IF p = P - 1 THEN One ELSE Zero],
     ConstRow(P, R(-1))}
\* template rows: the first pixel lit, flat, and a ramp
TemplateRows(P) ==
    {[p \in 0..(P - 1) |-> IF p = 0 THEN One ELSE Zero], ConstRow(P, One),
     [p \in 0..(P - 1) |-> R(p + 1)]}
\* the templates of the peaks, the same in every band; the peaks after the
\* first have flat templates
TemplateLists(P, nPk) ==
    {[k \in 0..(nPk - 1) |-> [n \in Bands |-> IF k = 0 THEN t ELSE ConstRow(P, One)]] :
        t \in TemplateRows(P)}

InitSolve ==
    /\ pc = "start"
    /\ fpShape \in SolveShapes
    /\ peaks \in PeakLists(fpShape)
    /\ includeBkg \in BOOLEAN
    \* Pinv covers an H of at most two rows
    /\ VLen(peaks) + (IF includeBkg THEN 1 ELSE 0) <= 2
    /\ data \in [Bands -> DataRows(Pixels(fpShape))]
    /\ templates \in TemplateLists(Pixels(fpShape), VLen(peaks))
    /\ offset = Zero
    /\ initW = None /\ initH = None /\ W = None /\ H = None
    /\ symmetryOp = None /\ diffOp = None /\ Hdiff = None
    /\ nmfUpdateFunc = "none" /\ updateKwargs = None /\ steps = 0 /\ iter = 0
    /\ err = "none" /\ stepUsed = None
    /\ template = None
    /\ parent = None
    /\ lastCall = None /\ exposure = None
    /\ displayKwargs = None /\ calls = None

\* template rows with a dark first pixel: the other pixels lit, the last one
\* at half the regulariser of the update rules; and the first pixel alone dark
DarkPixelRows(P) ==
    {[p \in 0..(P - 1) |-> IF p = 0 THEN Zero ELSE IF p = P - 1 THEN RDiv(Eps, R(2)) ELSE One],
     [p \in 0..(P - 1) |-> IF p = 0 THEN Zero ELSE One]}
DarkPixelLists(P, nPk) ==
    {[k \in 0..(nPk - 1) |-> [n \in Bands |-> IF k = 0 THEN t ELSE ConstRow(P, One)]] :
        t \in DarkPixelRows(P)}

\* the object built on templates that have a dark pixel
InitDark ==
    /\ pc = "start"
    /\ fpShape \in SolveShapes
    /\ peaks \in PeakLists(fpShape)
    /\ includeBkg \in BOOLEAN
    /\ VLen(peaks) + (IF includeBkg THEN 1 ELSE 0) <= 2
    /\ data \in [Bands -> DataRows(Pixels(fpShape))]
    /\ templates \in DarkPixelLists(Pixels(fpShape), VLen(peaks))
    /\ offset = Zero
    /\ initW = None /\ initH = None /\ W = None /\ H = None
    /\ symmetryOp = None /\ diffOp = None /\ Hdiff = None
    /\ nmfUpdateFunc = "none" /\ updateKwargs = None /\ steps = 0 /\ iter = 0
    /\ err = "none" /\ stepUsed = None
    /\ template = None /\ parent = None /\ lastCall = None /\ exposure = None
    /\ displayKwargs = None /\ calls = None

\* MulticolorCalExp.initNMFParams: initNMFparams shifts the data and calls
\* createInitWH
InitNMFParams ==
    /\ pc = "start"
    /\ \E offsetData \in BOOLEAN :
          \E res \in {initNMFparams(data, templates, includeBkg, offsetData)} :
              /\ ~HasOvf(res.W) /\ ~HasOvf(res.H)
              /\ offset' = res.offset
              /\ data' = res.data
              /\ initW' = res.W
              /\ initH' = res.H
    /\ pc' = "ready"
    /\ UNCHANGED <<fpVars, opVars, H, diffOp, err, W, nmfUpdateFunc, updateKwargs,
                   steps, iter, templates, stepUsed, outVars>>

\* MulticolorCalExp.getSymmetryDiffOp
MCGetSymmetryDiffOp ==
    /\ pc = "ready"
    /\ diffOp = None
    /\ diffOp' = getSymmetryDiffOp(initH, fpShape, peaks)
    /\ UNCHANGED <<pc, fpVars, opVars, H, err, solveVars, outVars>>

\* the step sizes passed to deblend for gradientDescent
StepSizes == {DefaultStep, <<1, 2>>}

\* the keyword arguments a caller passes to deblend for the rule func: the
\* symmetry penalty with beta = 1 once self.diffOp is built, and for
\* gradientDescent the two step sizes
Kwargs(func) ==
    LET pen == IF diffOp = None THEN [beta |-> Zero, diffOp |-> None]
               ELSE [beta |-> One, diffOp |-> diffOp]
    IN  CASE func = "multiplicativeUpdate" -> {pen}
          [] func = "inverseUpdate" -> {None}
          [] func = "gradientDescent" ->
                {[stepW |-> s, stepH |-> s, beta |-> pen.beta, diffOp |-> pen.diffOp] :
                    s \in StepSizes}

\* deblend picking up the factors the call before left in self.W, self.H
DeblendCall_warmStart(func, at) ==
    /\ pc = at
    /\ nmfUpdateFunc' = func
    /\ steps' \in 0..MaxSteps
    /\ updateKwargs' \in Kwargs(func)
    /\ W' = IF lastCall = None THEN initW ELSE lastCall.W
    /\ H' = IF lastCall = None THEN initH ELSE lastCall.H
    /\ iter' = 0
    /\ pc' = "loop"
    /\ UNCHANGED <<fpVars, opVars, diffOp, err, data, offset, initW, initH, templates,
                   stepUsed, outVars>>

\* deblend up to its loop: copies of initW and initH, the rule and its
\* keyword arguments; `at` is where the caller is
DeblendCall(func, at) ==
    /\ pc = at
    /\ nmfUpdateFunc' = func
    /\ steps' \in 0..MaxSteps
    /\ updateKwargs' \in Kwargs(func)
    /\ W' = initW
    /\ H' = initH
    /\ iter' = 0
    /\ pc' = "loop"
    /\ UNCHANGED <<fpVars, opVars, diffOp, err, data, offset, initW, initH, templates,
                   stepUsed, outVars>>

\* the first deblend call on the object
DeblendBegin(func) == DeblendCall(func, "ready")
\* a deblend call on an object whose earlier call has returned
DeblendAgain(func) == DeblendCall(func, "done")

\* nmfUpdateFunc(self.data, newW, newH, self.footprint, self.offset,
\*               self.includeBkg, **updateKwargs)
UpdateResult ==
    CASE nmfUpdateFunc = "multiplicativeUpdate" ->
            multiplicativeUpdate(data, W, H, offset, includeBkg,
                                 updateKwargs.beta, updateKwargs.diffOp)
      [] nmfUpdateFunc = "inverseUpdate" ->
            inverseUpdate(data, W, H, offset, includeBkg)
      [] nmfUpdateFunc = "gradientDescent" ->
            gradientDescent(data, W, H, offset, includeBkg,
                            updateKwargs.stepW, updateKwargs.stepH,
                            updateKwargs.beta, updateKwargs.diffOp)

\* one iteration of the loop of deblend; a run whose numbers leave
\* [-MaxMag, MaxMag] is not followed further and ends at "unfollowed"
DeblendStep ==
    /\ pc = "loop"
    /\ iter < steps
    /\ \E res \in {UpdateResult} :
          IF res.err # "none"
          THEN /\ err' = res.err
               /\ pc' = "raised"
               /\ UNCHANGED <<W, H, iter>>
          ELSE IF HasOvf(res.W) \/ HasOvf(res.H)
          THEN /\ pc' = "unfollowed"
               /\ UNCHANGED <<W, H, iter, err>>
          ELSE /\ W' = res.W
               /\ H' = res.H
               /\ iter' = iter + 1
               /\ UNCHANGED <<err, pc>>
    /\ stepUsed' = IF nmfUpdateFunc = "gradientDescent"
                   THEN <<updateKwargs.stepW, updateKwargs.stepH>>
                   ELSE stepUsed
    /\ UNCHANGED <<fpVars, opVars, diffOp, data, offset, initW, initH,
                   nmfUpdateFunc, updateKwargs, steps, templates, outVars>>

\* the diagnostics deblend logs once the loop is over, per band:
\* diff = (np.dot(newW, newH)-self.data)[fidx] and 'Residual difference',
\* 100*np.abs(np.sum(diff)/np.sum(self.data[fidx])), the number handed to
\* the '{0:.1f}%' format
BandSum(v) == SumTo(v, VLen(v))
residualOf(A, diff) ==
    [b \in DOMAIN A |-> RMul(R(100), RAbs(RDiv(BandSum(diff[b]), BandSum(A[b]))))]
residualDifference(A, Wm, Hm) ==
    residualOf(A, Array(ESub(Array(MatMul(Wm, Hm)), A)))

\* the loop left as soon as an iteration changes nothing
DeblendEnd_converged ==
    /\ pc = "loop"
    /\ (iter = steps \/ (iter >= 1 /\ UpdateResult.err = "none" /\ UpdateResult.H = H))
    /\ pc' = "done"
    /\ lastCall' = [nmfUpdateFunc |-> nmfUpdateFunc, updateKwargs |-> updateKwargs,
                    steps |-> steps, W |-> W, H |-> H,
                    residual |-> Array(residualDifference(data, W, H))]
    /\ UNCHANGED <<fpVars, opVars, H, diffOp, err, solveVars, template, parent, exposure, displayKwargs, calls>>

\* the loop is over: self.W = newW, self.H = newH, and deblend returns them
DeblendEnd ==
    /\ pc = "loop"
    /\ iter = steps
    /\ pc' = "done"
    /\ lastCall' = [nmfUpdateFunc |-> nmfUpdateFunc, updateKwargs |-> updateKwargs,
                    steps |-> steps, W |-> W, H |-> H,
                    residual |-> Array(residualDifference(data, W, H))]
    /\ UNCHANGED <<fpVars, opVars, H, diffOp, err, solveVars, template, parent, exposure, displayKwargs, calls>>

\* deblend with its default rule, multiplicativeUpdate
Next ==
    \/ InitNMFParams
    \/ MCGetSymmetryDiffOp
    \/ DeblendBegin("multiplicativeUpdate")
    \/ DeblendStep
    \/ DeblendEnd

Spec == InitSolve /\ [][Next]_vars

\* deblend with inverseUpdate, which takes no keyword arguments
NextInv ==
    \/ InitNMFParams
    \/ DeblendBegin("inverseUpdate")
    \/ DeblendStep
    \/ DeblendEnd

SpecInv == InitSolve /\ [][NextInv]_vars

\* deblend with gradientDescent
NextGD ==
    \/ InitNMFParams
    \/ MCGetSymmetryDiffOp
    \/ DeblendBegin("gradientDescent")
    \/ DeblendStep
    \/ DeblendEnd

SpecGD == InitSolve /\ [][NextGD]_vars

\* an iteration of the for loop of deblend is due
IterationDue == pc = "loop" /\ iter < steps
\* the for loop of deblend is exhausted
ReturnDue == pc = "loop" /\ iter = steps

\* what a DeblendStep does to pc and iter: the rule returns and the next
\* iteration is due, or the call ends the loop
LoopRuns ==
    /\ IterationDue
    /\ \/ pc' = "loop" /\ iter' = iter + 1
       \/ pc' \in {"raised", "unfollowed"} /\ iter' = iter
\* what DeblendEnd does to pc and iter
LoopReturns == ReturnDue /\ pc' = "done" /\ iter' = iter
\* the interpreter runs deblend on: an iteration that stays due is run, and
\* a loop that is exhausted is left.  The only steps of deblend that change
\* pc or iter while an iteration is due are DeblendStep steps, and while
\* the loop is exhausted DeblendEnd steps.
Sequential == WF_<<pc, iter>>(LoopRuns) /\ WF_<<pc, iter>>(LoopReturns)

\* deblend with any of the three rules; a call that has started runs on
NextAny ==
    \/ InitNMFParams
    \/ MCGetSymmetryDiffOp
    \/ DeblendBegin("multiplicativeUpdate")
    \/ DeblendBegin("inverseUpdate")
    \/ DeblendBegin("gradientDescent")
    \/ DeblendStep
    \/ DeblendEnd

\* deblend called again and again with its default rule
NextAgain ==
    \/ InitNMFParams
    \/ MCGetSymmetryDiffOp
    \/ DeblendBegin("multiplicativeUpdate")
    \/ DeblendAgain("multiplicativeUpdate")
    \/ DeblendStep
    \/ DeblendEnd

SpecAgain == InitSolve /\ [][NextAgain]_vars

SpecAny == InitSolve /\ [][NextAny]_vars

\* deblend with its default rule on templates that have a dark pixel
SpecDark == InitDark /\ [][Next]_vars

SpecFair ==
    InitSolve /\ [][NextAny]_vars /\ Sequential

\* -------------------------------------------------- reconstructTemplate
\* template = W[fidx,pkIdx]*H[pkIdx,:], less the offset on every row when a
\* background is included
flatTemplate_anyRow(Wm, Hm, fidx, pkIdx, off, bkg) ==
    [x \in DOMAIN Hm[pkIdx] |->
        IF bkg THEN RSub(RMul(Wm[fidx][pkIdx], Hm[pkIdx][x]), off)
        ELSE RMul(Wm[fidx][pkIdx], Hm[pkIdx][x])]
\* template = W[fidx,pkIdx]*H[pkIdx,:]; if includeBkg and pkIdx==len(H)-1:
\* template = template-offset
flatTemplate(Wm, Hm, fidx, pkIdx, off, bkg) ==
    [x \in DOMAIN Hm[pkIdx] |->
        IF bkg /\ pkIdx = NRows(Hm) - 1
        THEN RSub(RMul(Wm[fidx][pkIdx], Hm[pkIdx][x]), off)
        ELSE RMul(Wm[fidx][pkIdx], Hm[pkIdx][x])]
\* template.reshape(fpShape): row-major, shape = <<height, width>>
reshapeTo(v, shape) ==
    [y \in 0..(shape[1] - 1) |-> [x \in 0..(shape[2] - 1) |-> v[y * shape[2] + x]]]
\* a missing footprint refused whether or not a reshape was asked for
needsFootprint_always(fp, reshape) == fp = None
\* if reshape: if fp is None: raise ValueError
needsFootprint(fp, reshape) == reshape /\ fp = None
\* the value returned for a template that was computed
shapedTemplate(flat, fp, reshape) ==
    IF needsFootprint(fp, reshape) THEN [err |-> "ValueError", value |-> None]
    ELSE [err |-> "none", value |-> IF reshape THEN reshapeTo(flat, fp) ELSE flat]
\* fp is None or the <<height, width>> of the footprint's bounding box
reconstructTemplate(Wm, Hm, fidx, pkIdx, off, fp, reshape, bkg) ==
    shapedTemplate(Array(flatTemplate(Wm, Hm, fidx, pkIdx, off, bkg)), fp, reshape)

\* the matrices handed to reconstructTemplate: nSrc sources on P pixels
TemplateW(nSrc) ==
    {[b \in Bands |-> [k \in 0..(nSrc - 1) |-> R(b + 2 * k + 1)]],
     [b \in Bands |-> [k \in 0..(nSrc - 1) |-> RDiv(R(b - k), R(2))]]}
TemplateH(nSrc, P) ==
    {[k \in 0..(nSrc - 1) |-> [x \in 0..(P - 1) |-> R(m * (x + 1) + k)]] : m \in {1, -2}}
TemplateOffsets == {Zero, One, <<3, 2>>}

InitTemplate ==
    /\ pc = "start"
    /\ fpShape \in Shapes
    /\ includeBkg \in BOOLEAN
    /\ \E nSrc \in 1..MaxPeaks :
          /\ W \in TemplateW(nSrc)
          /\ H \in TemplateH(nSrc, Pixels(fpShape))
    /\ offset \in TemplateOffsets
    /\ peaks = None /\ symmetryOp = None /\ diffOp = None /\ Hdiff = None
    /\ err = "none" /\ data = None /\ initW = None /\ initH = None
    /\ nmfUpdateFunc = "none" /\ updateKwargs = None /\ steps = 0 /\ iter = 0
    /\ templates = None /\ stepUsed = None
    /\ template = None
    /\ parent = None
    /\ lastCall = None /\ exposure = None
    /\ displayKwargs = None /\ calls = None

\* a call reconstructTemplate(W, H, fidx, pkIdx, offset, fp, reshape,
\* includeBkg) with valid indices; fp is absent or the footprint of H
ReconstructTemplate ==
    /\ pc = "start"
    /\ \E fidx \in DOMAIN W : \E pkIdx \in DOMAIN H :
          \E fp \in {None, fpShape} : \E reshape \in BOOLEAN :
              \E res \in {reconstructTemplate(W, H, fidx, pkIdx, offset, fp, reshape,
                                              includeBkg)} :
                  /\ template' = [fidx |-> fidx, pkIdx |-> pkIdx, fp |-> fp,
                                  reshape |-> reshape, value |-> res.value]
                  /\ err' = res.err
    /\ pc' = "returned"
    /\ UNCHANGED <<fpVars, opVars, H, diffOp, solveVars, parent, lastCall, exposure, displayKwargs, calls>>

NextTemplate == ReconstructTemplate

SpecTemplate == InitTemplate /\ [][NextTemplate]_vars

\* ------------------------------------------- DeblendedParent (proximal)
\* the constraints strings, as sequences of characters
ConstraintStrings == {<<"M">>, <<"m">>, <<"S">>, <<" ">>, <<"S", "M">>, <<"S", " ">>}
\* str.lower on the letters in use
Lower(c) == IF c = "M" THEN "m" ELSE IF c = "S" THEN "s" ELSE c
\* ch in constraints.lower()
InLower(ch, str) == \E i \in DOMAIN str : Lower(str[i]) = ch
\* constraints*len(peaks) for a single constraint
Repeated(str, n) == IF Len(str) = 1 THEN [i \in 1..n |-> str[1]] ELSE str

\* DeblendedParent.__init__
InitParent ==
    /\ pc = "start"
    /\ fpShape \in Shapes
    /\ peaks \in PeakLists(fpShape)
    /\ parent = [data |-> None, psfOp |-> None, symmetryOp |-> None,
                 monotonicOp |-> None, call |-> "__init__", initPsf |-> FALSE,
                 returned |-> None, constraints |-> None]
    /\ includeBkg = FALSE
    /\ H = None /\ symmetryOp = None /\ diffOp = None /\ Hdiff = None
    /\ err = "none" /\ data = None /\ offset = Zero /\ initW = None /\ initH = None
    /\ W = None /\ nmfUpdateFunc = "none" /\ updateKwargs = None /\ steps = 0
    /\ iter = 0 /\ templates = None /\ stepUsed = None /\ template = None
    /\ lastCall = None /\ exposure = None
    /\ displayKwargs = None /\ calls = None

\* the object after initNMF(initPsf): buildNmfData has run when the PSF
\* operator is refused
initNMF(obj, initPsf) ==
    IF initPsf
    THEN [err |-> "NotImplementedError", obj |-> [obj EXCEPT !.data = "buildNmfData"]]
    ELSE [err |-> "none", obj |-> [obj EXCEPT !.data = "buildNmfData", !.psfOp = None]]

\* DeblendedParent.initNMF
InitNMF ==
    /\ pc = "start"
    /\ \E initPsf \in BOOLEAN : \E res \in {initNMF(parent, initPsf)} :
          /\ parent' = [res.obj EXCEPT !.call = "initNMF", !.initPsf = initPsf]
          /\ err' = res.err
          /\ pc' = IF res.err = "none" THEN "initialised" ELSE "raised"
    /\ UNCHANGED <<fpVars, opVars, H, diffOp, solveVars, template, lastCall, exposure, displayKwargs, calls>>

\* DeblendedParent.getSymmetryOp: a bare return
GetSymmetryOp ==
    /\ pc \in {"start", "initialised"}
    /\ parent' = [parent EXCEPT !.call = "getSymmetryOp", !.returned = None]
    /\ pc' = "returned"
    /\ UNCHANGED <<fpVars, opVars, H, diffOp, err, solveVars, template, lastCall, exposure, displayKwargs, calls>>

\* DeblendedParent.getMonotonicOp: a bare return
GetMonotonicOp ==
    /\ pc \in {"start", "initialised"}
    /\ parent' = [parent EXCEPT !.call = "getMonotonicOp", !.returned = None]
    /\ pc' = "returned"
    /\ UNCHANGED <<fpVars, opVars, H, diffOp, err, solveVars, template, lastCall, exposure, displayKwargs, calls>>

\* ExposureDeblend.deblendParent up to the call of pnmf.nmf_deblender in
\* DeblendedParent.deblend: initNMF, the two `pass` branches, and the
\* constraints handed on
DeblendParent ==
    /\ pc = "start"
    /\ \E constraints \in ConstraintStrings : \E initPsf \in BOOLEAN :
          \E res \in {initNMF(parent, initPsf)} :
              /\ err' = res.err
              /\ IF res.err # "none"
                 THEN /\ parent' = [res.obj EXCEPT !.call = "deblendParent", !.initPsf = initPsf,
                                                   !.constraints = constraints]
                      /\ pc' = "raised"
                 ELSE /\ parent' = [res.obj EXCEPT !.call = "deblendParent", !.initPsf = initPsf,
                                        !.constraints = Repeated(constraints, VLen(peaks))]
                      /\ pc' = "nmf_deblender"
    /\ UNCHANGED <<fpVars, opVars, H, diffOp, solveVars, template, lastCall, exposure, displayKwargs, calls>>

NextParent == InitNMF \/ GetSymmetryOp \/ GetMonotonicOp \/ DeblendParent

SpecParent == InitParent /\ [][NextParent]_vars

\* ------------------------------------------ ExposureDeblend (proximal)
\* mergedDet: the number of peaks of the footprint of every source; the
\* sources are indexed from 0 and source i has the id SourceId(i)
Catalogs ==
    UNION {[0..(n - 1) -> 1..MaxPeaks] : n \in 1..MaxSources}
SourceId(i) == 10 * (i + 1)
\* the condition argument: absent, or a boolean mask over the catalog
Conditions(cat) == {None} \cup [DOMAIN cat -> BOOLEAN]
\* np.where(condition)[0] as the ascending list of the selected indices
WhereTrue(mask) ==
    LET S == {i \in DOMAIN mask : mask[i]}
    IN  [k \in 0..(Cardinality(S) - 1) |->
            CHOOSE i \in S : Cardinality({j \in S : j < i}) = k]
\* getParentFootprint: idx = np.where(condition)[0][parentIdx], the index
\* of the source whose footprint and peaks are returned; -1 for IndexError.
\* An absent condition is np.ones(len(mergedTable), dtype=bool)
selectedIdx(cat, condition, parentIdx) ==
    IF condition = None THEN parentIdx
    ELSE IF parentIdx \in DOMAIN WhereTrue(condition)
         THEN WhereTrue(condition)[parentIdx] ELSE -1
\* d[key] = value on an OrderedDict
DictSet(d, key, value) ==
    [k \in DOMAIN d \cup {key} |-> IF k = key THEN value ELSE d[k]]

\* ExposureDeblend.__init__ with a merged catalog loaded
InitExposure ==
    /\ pc = "start"
    /\ \E cat \in Catalogs :
          exposure = [mergedDet |-> cat, condition |-> None, parentIdx |-> 0,
                      deblendedParents |-> <<>>]
    /\ fpShape = None /\ peaks = None /\ includeBkg = FALSE
    /\ H = None /\ symmetryOp = None /\ diffOp = None /\ Hdiff = None
    /\ err = "none" /\ data = None /\ offset = Zero /\ initW = None /\ initH = None
    /\ W = None /\ nmfUpdateFunc = "none" /\ updateKwargs = None /\ steps = 0
    /\ iter = 0 /\ templates = None /\ stepUsed = None /\ template = None
    /\ parent = None /\ lastCall = None
    /\ displayKwargs = None /\ calls = None

\* ExposureDeblend.deblend(condition): self.deblendedParents = OrderedDict()
\* and the loop over the catalog entered
ExposureDeblendBegin ==
    /\ pc = "start"
    /\ \E condition \in Conditions(exposure.mergedDet) :
          exposure' = [exposure EXCEPT !.condition = condition, !.parentIdx = 0,
                                       !.deblendedParents = <<>>]
    /\ pc' = "catalog"
    /\ UNCHANGED <<fpVars, opVars, H, diffOp, err, solveVars, template, parent, lastCall,
                   displayKwargs, calls>>

\* one pass of `for parentIdx, src in enumerate(self.mergedDet)`: a source
\* with more than one peak is handed to deblendParent(parentIdx, condition),
\* and the DeblendedParent built on the footprint getParentFootprint
\* selects (named here by the index of its source) is stored under
\* src.getId()
ExposureDeblendSource ==
    /\ pc = "catalog"
    /\ exposure.parentIdx \in DOMAIN exposure.mergedDet
    /\ IF exposure.mergedDet[exposure.parentIdx] > 1
       THEN \E idx \in {selectedIdx(exposure.mergedDet, exposure.condition,
                                     exposure.parentIdx)} :
                IF idx = -1
                THEN /\ err' = "IndexError" /\ pc' = "raised"
                     /\ UNCHANGED exposure
                ELSE /\ exposure' = [exposure EXCEPT
                            !.deblendedParents =
                                DictSet(@, SourceId(exposure.parentIdx), idx),
                            !.parentIdx = @ + 1]
                     /\ UNCHANGED <<err, pc>>
       ELSE /\ exposure' = [exposure EXCEPT !.parentIdx = @ + 1]
            /\ UNCHANGED <<err, pc>>
    /\ UNCHANGED <<fpVars, opVars, H, diffOp, solveVars, template, parent, lastCall,
                   displayKwargs, calls>>

\* the catalog is exhausted: ExposureDeblend.deblend returns
ExposureDeblendEnd ==
    /\ pc = "catalog"
    /\ exposure.parentIdx \notin DOMAIN exposure.mergedDet
    /\ pc' = "done"
    /\ UNCHANGED <<fpVars, opVars, H, diffOp, err, solveVars, outVars>>

NextExposure == ExposureDeblendBegin \/ ExposureDeblendSource \/ ExposureDeblendEnd

SpecExposure == InitExposure /\ [][NextExposure]_vars

\* ------------------------------------- the display block of deblend
\* the MulticolorCalExp objects and the callers that run deblend on them
Objects == 1..MaxObjects
Callers == 1..MaxCallers
\* self.vminDict[self.filters[fidx]] and self.vmaxDict[self.filters[fidx]]
\* of object o: the zscale limits of its own exposure in band fidx
vminDict(o, fidx) == 10 * o + fidx
vmaxDict(o, fidx) == 100 * o + fidx
EmptyDict == [k \in {} |-> 0]
\* the displayKwargs a caller may pass: an empty dict of its own, or one
\* that names band 1
PassedKwargs == {EmptyDict, [k \in {"fidx"} |-> 1]}
\* the dict the name displayKwargs is bound to in the call of caller c
KwargsOf(c) == IF calls[c].default THEN displayKwargs ELSE calls[c].own
\* displayKwargs[key] = value, in the dict the call of caller c holds
SetKwarg(c, key, value) ==
    IF calls[c].default
    THEN /\ displayKwargs' = DictSet(displayKwargs, key, value)
         /\ calls' = [calls EXCEPT ![c].pc = IF key = "fidx" THEN "vmin"
                                             ELSE IF key = "vmin" THEN "vmax" ELSE "plot"]
    ELSE /\ calls' = [calls EXCEPT ![c].own = DictSet(@, key, value),
                                   ![c].pc = IF key = "fidx" THEN "vmin"
                                             ELSE IF key = "vmin" THEN "vmax" ELSE "plot"]
         /\ UNCHANGED displayKwargs
\* the same, the key being present already or the branch not taken
SkipKwarg(c, key) ==
    /\ calls' = [calls EXCEPT ![c].pc = IF key = "fidx" THEN "vmin"
                                        ELSE IF key = "vmin" THEN "vmax" ELSE "plot"]
    /\ UNCHANGED displayKwargs

\* the module is imported: the default dict is built, no call was made
InitDisplay ==
    /\ pc = "start"
    /\ displayKwargs = EmptyDict
    /\ calls = [c \in Callers |->
                  [pc |-> "idle", self |-> 1, default |-> TRUE, imgLimits |-> TRUE,
                   own |-> EmptyDict, plotted |-> None]]
    /\ fpShape = None /\ peaks = None /\ includeBkg = FALSE
    /\ H = None /\ symmetryOp = None /\ diffOp = None /\ Hdiff = None
    /\ err = "none" /\ data = None /\ offset = Zero /\ initW = None /\ initH = None
    /\ W = None /\ nmfUpdateFunc = "none" /\ updateKwargs = None /\ steps = 0
    /\ iter = 0 /\ templates = None /\ stepUsed = None /\ template = None
    /\ parent = None /\ lastCall = None /\ exposure = None

OtherVars ==
    <<pc, fpVars, opVars, H, diffOp, err, solveVars, template, parent, lastCall, exposure>>

\* caller c calls deblend on an object, with or without a displayKwargs
\* argument, and reaches `if display:`; the update loop and the log lines
\* before it read and write no displayKwargs.  With display off the call
\* returns there
DisplayCall(c) ==
    /\ calls[c].pc \in {"idle", "shown"}
    /\ \E o \in Objects, display \in BOOLEAN, imgLimits \in BOOLEAN,
          default \in BOOLEAN, passed \in PassedKwargs :
          calls' = [calls EXCEPT ![c] =
                       [pc |-> IF display THEN "fidx" ELSE "idle", self |-> o,
                        default |-> default, imgLimits |-> imgLimits,
                        own |-> IF default THEN EmptyDict ELSE passed,
                        plotted |-> None]]
    /\ UNCHANGED <<displayKwargs, OtherVars>>

\* if "fidx" not in displayKwargs: displayKwargs["fidx"] = 0
DisplayFidx(c) ==
    /\ calls[c].pc = "fidx"
    /\ IF "fidx" \notin DOMAIN KwargsOf(c)
       THEN SetKwarg(c, "fidx", 0) ELSE SkipKwarg(c, "fidx")
    /\ UNCHANGED OtherVars

\* if imgLimits: if "vmin" not in displayKwargs: displayKwargs["vmin"] = ...
DisplayVmin(c) ==
    /\ calls[c].pc = "vmin"
    /\ IF calls[c].imgLimits /\ "vmin" \notin DOMAIN KwargsOf(c)
       THEN SetKwarg(c, "vmin", vminDict(calls[c].self, KwargsOf(c)["fidx"]))
       ELSE SkipKwarg(c, "vmin")
    /\ UNCHANGED OtherVars

\* if imgLimits: if "vmax" not in displayKwargs: displayKwargs["vmax"] = ...
DisplayVmax(c) ==
    /\ calls[c].pc = "vmax"
    /\ IF calls[c].imgLimits /\ "vmax" \notin DOMAIN KwargsOf(c)
       THEN SetKwarg(c, "vmax", 10 * vmaxDict(calls[c].self, KwargsOf(c)["fidx"]))
       ELSE SkipKwarg(c, "vmax")
    /\ UNCHANGED OtherVars

\* plotIntensities(newW, newH, fp, offset=self.offset, **displayKwargs),
\* and the call returns
DisplayPlot(c) ==
    /\ calls[c].pc = "plot"
    /\ calls' = [calls EXCEPT ![c].pc = "shown", ![c].plotted = KwargsOf(c)]
    /\ UNCHANGED <<displayKwargs, OtherVars>>

NextDisplay ==
    \E c \in Callers :
        \/ DisplayCall(c)
        \/ DisplayFidx(c)
        \/ DisplayVmin(c)
        \/ DisplayVmax(c)
        \/ DisplayPlot(c)

SpecDisplay == InitDisplay /\ [][NextDisplay]_vars

\* ------------------------------------------------------------ geometry
\* index of the point reflection of pixel p about the peak pk, -1 when the
\* reflection falls outside the grid
Refl(p, shape, pk) ==
    LET x == p % shape[2]
        y == p \div shape[2]
        rx == 2 * pk[1] - x
        ry == 2 * pk[2] - y
    IN  IF rx >= 0 /\ rx < shape[2] /\ ry >= 0 /\ ry < shape[1]
        THEN ry * shape[2] + rx ELSE -1
PixelSet == 0..(Pixels(fpShape) - 1)
Centred(shape, pk) == 2 * pk[1] = shape[2] - 1 /\ 2 * pk[2] = shape[1] - 1
PointSymmetric(v, shape, pk) ==
    \A p \in DOMAIN v : Refl(p, shape, pk) # -1 => v[p] = v[Refl(p, shape, pk)]
Reversal(n) == [i \in 0..(n - 1) |-> [j \in 0..(n - 1) |-> IF j = n - 1 - i THEN 1 ELSE 0]]
ZeroRow(v) == \A p \in DOMAIN v : v[p] = Zero
\* the sum of column j of W
ColSum(Wm, j) == SumTo([i \in DOMAIN Wm |-> Wm[i][j]], NRows(Wm))
\* deblend is running or has returned with the rule func
Running(func) == nmfUpdateFunc = func /\ pc \in {"loop", "done"}
\* the data and the initial estimate handed to deblend have no negative entry
NonNegInputs == NonNegM(data) /\ NonNegM(initW) /\ NonNegM(initH)
Half(x) == RDiv(x, R(2))

\* ---------------------------------------------------------------- claims
\* C1: without a symmetry penalty (no diffOp passed) and with A, W0, H0 all
\* >= 0, after any number of successive multiplicativeUpdate calls every
\* entry of the returned W and H is >= 0.
C1_NonNegativePreserved ==
    (Running("multiplicativeUpdate") /\ updateKwargs.diffOp = None /\ NonNegInputs) =>
        NonNegM(W) /\ NonNegM(H)

\* two successive updates were applied to non-negative inputs and moved H
C1_Witness ==
    /\ Running("multiplicativeUpdate")
    /\ updateKwargs.diffOp = None
    /\ NonNegInputs
    /\ iter >= 2
    /\ H # initH
    /\ \E i \in DOMAIN W : \E j \in DOMAIN W[i] : IsPos(W[i][j])
    /\ \E i \in DOMAIN H : \E p \in DOMAIN H[i] : IsPos(H[i][p])

\* C2: with the difference operators passed and beta > 0, for non-negative
\* A, W, H the denominator of the H-update is positive in every entry, so
\* the returned H has no negative entry after any number of iterations.
C2_PenalisedStaysNonNegative ==
    (/\ Running("multiplicativeUpdate")
     /\ updateKwargs.diffOp # None
     /\ IsPos(updateKwargs.beta)
     /\ NonNegInputs) => NonNegM(H)

\* C3: after createInitWH, and after every multiplicativeUpdate call, every
\* column of the returned W sums to 1; a column whose sum was 0 before the
\* normalisation is returned as it was, and so still sums to 0.
C3_ColumnsSumToOne ==
    /\ (pc = "ready" /\ NonNegM(data)) =>
          \A j \in DOMAIN initW[0] : ColSum(initW, j) \in {One, Zero}
    /\ (Running("multiplicativeUpdate") /\ iter >= 1 /\ NonNegM(data)) =>
          \A j \in DOMAIN W[0] : ColSum(W, j) \in {One, Zero}

\* C9: inverseUpdate never raises, whatever A, W and H are: a singular
\* H.Ht or Wt.W is regularised before it is inverted.
C9_InverseNeverRaises ==
    nmfUpdateFunc = "inverseUpdate" => err = "none"

\* C10: with gradientDescent as the rule of deblend, the stepW and stepH
\* applied in an iteration are half of those applied in the iteration
\* before.
C10_StepsHalved ==
    [][(nmfUpdateFunc = "gradientDescent" /\ pc = "loop" /\ iter >= 1 /\ iter' = iter + 1) =>
          /\ stepUsed'[1] = Half(stepUsed[1])
          /\ stepUsed'[2] = Half(stepUsed[2])]_vars

\* C11: deblend applies its rule exactly steps times, each iteration taking
\* the W, H returned by the one before, with no convergence test and no
\* early exit: it returns only after iteration number steps, every started
\* call comes to its end, and with steps = 0 it returns initW, initH.
C11_ExactlyStepsInSequence ==
    /\ [](pc = "done" => (iter = steps /\ (steps = 0 => (W = initW /\ H = initH))))
    /\ [][(pc = "loop" /\ iter' # iter) =>
            (/\ iter' = iter + 1
             /\ iter' <= steps
             /\ W' = UpdateResult.W
             /\ H' = UpdateResult.H)]_vars
    /\ (pc = "loop" ~> pc \in {"done", "raised", "unfollowed"})

\* a call of two or more iterations has returned, the last two iterations
\* having changed nothing any more
C11_Witness ==
    /\ pc = "done"
    /\ steps >= 2
    /\ iter = steps
    /\ H # initH
    /\ UpdateResult.err = "none" /\ UpdateResult.H = H

\* C4: for every grid shape, peak and intensity row v that is point-symmetric
\* about the peak (v[p] = v[p'] whenever the reflection p' lies inside the
\* grid), the operator S of that peak satisfies S.v = v and the operator D
\* satisfies D.v = 0.
C4_SymmetricRowIsFixed ==
    pc = "applied" =>
        \A k \in DOMAIN symmetryOp :
            PointSymmetric(H[k], fpShape, peaks[k]) =>
                /\ NCols(symmetryOp[k]) = NCols(H)
                /\ OpDot(symmetryOp[k], H[k]) = H[k]
                /\ NCols(diffOp[k]) = NCols(H)
                /\ ZeroRow(OpDot(diffOp[k], H[k]))

\* C5: with the peak at the geometric centre of the grid,
\* getPeakSymmetryOperator called with one row of length pixels returns the
\* full reversal: S[i, j] = 1 if j = pixels-1-i and 0 otherwise.
C5_CentredIsReversal ==
    (pc = "peakDone" /\ Centred(fpShape, peaks[0])) =>
        symmetryOp[0] = Reversal(Pixels(fpShape))

C5_Witness ==
    /\ pc = "peakDone"
    /\ Centred(fpShape, peaks[0])
    /\ Pixels(fpShape) >= 3
    /\ symmetryOp[0][0][Pixels(fpShape) - 1] = 1

\* C6: getSymmetryOperator and getSymmetryDiffOp return exactly one operator
\* per peak, none for the background row, and every operator is square of
\* size pixels x pixels, so that getIntensityDiff can apply operator k to
\* the row H[k].
C6_OnePerPeakSquare ==
    /\ pc \in {"symDone", "diffDone", "applied"} =>
          /\ DOMAIN symmetryOp = DOMAIN peaks
          /\ \A k \in DOMAIN symmetryOp :
                /\ NRows(symmetryOp[k]) = Pixels(fpShape)
                /\ NCols(symmetryOp[k]) = Pixels(fpShape)
    /\ pc \in {"diffDone", "applied"} =>
          /\ DOMAIN diffOp = DOMAIN peaks
          /\ \A k \in DOMAIN diffOp :
                /\ NRows(diffOp[k]) = Pixels(fpShape)
                /\ NCols(diffOp[k]) = Pixels(fpShape)
    /\ pc = "applied" => err = "none"

\* C7: for an off-centre peak whose sub-rectangle is narrower than the grid,
\* every pixel outside the sub-rectangle has an all-zero row and an all-zero
\* column in S, and every pixel inside it has exactly one non-zero entry in
\* its row, equal to 1, in the column of its point reflection about the peak.
C7_NoAliasing ==
    pc \in {"peakDone", "symDone", "diffDone"} =>
        \A k \in DOMAIN symmetryOp :
            (~Centred(fpShape, peaks[k]) /\ 2 * peaks[k][1] # fpShape[2] - 1) =>
                /\ DOMAIN symmetryOp[k] = PixelSet
                /\ \A p \in PixelSet :
                      IF Refl(p, fpShape, peaks[k]) = -1
                      THEN \A q \in PixelSet :
                              symmetryOp[k][p][q] = 0 /\ symmetryOp[k][q][p] = 0
                      ELSE \A q \in PixelSet :
                              symmetryOp[k][p][q] =
                                  IF q = Refl(p, fpShape, peaks[k]) THEN 1 ELSE 0

\* a narrower sub-rectangle that spans several grid rows, with a pixel that
\* is reflected into another grid row
C7_Witness ==
    /\ pc = "symDone"
    /\ \E k \in DOMAIN symmetryOp :
          /\ ~Centred(fpShape, peaks[k])
          /\ 2 * peaks[k][1] # fpShape[2] - 1
          /\ \E p \in PixelSet :
                /\ Refl(p, fpShape, peaks[k]) # -1
                /\ Refl(p, fpShape, peaks[k]) \div fpShape[2] # p \div fpShape[2]
                /\ symmetryOp[k][p][Refl(p, fpShape, peaks[k])] = 1
          /\ \E p \in PixelSet : Refl(p, fpShape, peaks[k]) = -1

\* C8: pixels outside a source's symmetric sub-rectangle contribute nothing
\* to the symmetry penalty: for every such pixel p and every row v the term
\* (D_s.v)[p] computed by getSymmetryDiffOp and getIntensityDiff is 0.
C8_OutsideUnpenalised ==
    (pc = "applied" /\ err = "none") =>
        \A k \in DOMAIN diffOp : \A p \in PixelSet :
            Refl(p, fpShape, peaks[k]) = -1 => Hdiff[k][p] = Zero

\* C12: the H returned by createInitWH has, as the row of every real source,
\* the unweighted mean across bands of the source's templates, and as the
\* background row (includeBkg) the constant offset.
C12_HIsMeanTemplate ==
    pc # "start" => initH = templateH(data, templates, offset, includeBkg)

\* C12 as the code has it: every row of the returned H is that row (the mean
\* template, or the constant offset) times the norm factor of its source,
\* the sum over the bands of the column of data.pinv(H), or 1 when that sum
\* is 0.
C12_HIsScaledMeanTemplate ==
    pc # "start" =>
        \E Hm \in {templateH(data, templates, offset, includeBkg)} :
            \E nf \in {SumNormFactor(Array(MatMul(data, Array(Pinv(Hm)))))} :
                /\ DOMAIN initH = DOMAIN Hm
                /\ \A s \in DOMAIN Hm : \A x \in DOMAIN Hm[s] :
                      initH[s][x] = RMul(Hm[s][x], nf[s])

\* an initial estimate with a background row whose rows were rescaled
C12_Witness ==
    /\ pc = "ready"
    /\ includeBkg
    /\ offset # Zero
    /\ initH # templateH(data, templates, offset, includeBkg)

\* pixel x of the template the last reconstructTemplate call returned
TemplateAt(x) ==
    IF template.reshape
    THEN template.value[x \div fpShape[2]][x % fpShape[2]]
    ELSE template.value[x]

\* C13: for every band b and source s reconstructTemplate returns
\* W[b,s]*H[s,:], with the offset subtracted from every pixel if and only if
\* includeBkg is set and s is the last row of H; W and H are left unmodified.
C13_TemplateIsProduct ==
    /\ []((pc = "returned" /\ err = "none") =>
            \A x \in DOMAIN H[template.pkIdx] :
                TemplateAt(x) =
                    RAdd(RMul(W[template.fidx][template.pkIdx], H[template.pkIdx][x]),
                         IF includeBkg /\ template.pkIdx = NRows(H) - 1
                         THEN RNeg(offset) ELSE Zero))
    /\ [][W' = W /\ H' = H]_vars

\* the reshaped template of the last of two rows with a background and a
\* non-zero offset, and that of the first row
C13_Witness ==
    /\ pc = "returned" /\ err = "none"
    /\ includeBkg /\ offset # Zero
    /\ NRows(H) = 2 /\ template.pkIdx = 1 /\ template.reshape
    /\ Pixels(fpShape) >= 4
    /\ TemplateAt(3) = RSub(RMul(W[template.fidx][1], H[1][3]), offset)
    /\ TemplateAt(3) # RMul(W[template.fidx][1], H[1][3])

\* C14: reconstructTemplate with reshape=True and no footprint fails with
\* ValueError for every W, H and valid indices; with a footprint, or with
\* reshape=False, it returns a template without error.
C14_ReshapeNeedsFootprint ==
    pc = "returned" =>
        /\ (template.reshape /\ template.fp = None) => (err = "ValueError")
        /\ (~template.reshape \/ template.fp # None) =>
              (err = "none" /\ template.value # None)

\* a reshaped template asked for without a footprint, and refused
C14_Witness ==
    /\ pc = "returned"
    /\ template.reshape /\ template.fp = None
    /\ err = "ValueError" /\ template.value = None

\* C15: every request for an unimplemented feature fails explicitly:
\* initNMF(initPsf=True) raises NotImplementedError, and asking for the
\* monotonicity operator (getMonotonicOp, or constraints containing 'M' in
\* deblendParent) surfaces a not-supported failure too.
C15_UnimplementedFails ==
    /\ (parent # None /\ parent.call \in {"initNMF", "deblendParent"} /\ parent.initPsf) =>
          (pc = "raised" /\ err = "NotImplementedError")
    /\ (parent # None /\ parent.call = "getMonotonicOp") =>
          err = "NotImplementedError"
    /\ (parent # None /\ parent.call = "deblendParent" /\ ~parent.initPsf
            /\ InLower("m", parent.constraints)) =>
          err = "NotImplementedError"

\* the deblend call under way has the arguments of the call that returned last
SameArguments ==
    /\ lastCall # None
    /\ lastCall.nmfUpdateFunc = nmfUpdateFunc
    /\ lastCall.updateKwargs = updateKwargs
    /\ lastCall.steps = steps

\* C16: every deblend call starts from copies of initW and initH, whatever
\* self.W and self.H an earlier call left; initW, initH and data are
\* unchanged by the call; two consecutive calls with the same arguments
\* return equal results.
C16_StatelessBetweenCalls ==
    /\ [][(pc \in {"ready", "done"} /\ pc' = "loop") => (W' = initW /\ H' = initH)]_vars
    /\ [][(pc \in {"ready", "loop", "done"}) =>
              (initW' = initW /\ initH' = initH /\ data' = data)]_vars
    /\ [][(pc = "loop" /\ pc' = "done" /\ SameArguments) =>
              (W = lastCall.W /\ H = lastCall.H)]_vars

\* a second call with the arguments of the first is about to return the
\* factors the first returned, which are not the initial ones
C16_Witness ==
    /\ pc = "loop" /\ iter = steps /\ steps >= 1
    /\ SameArguments
    /\ lastCall.W = W /\ lastCall.H = H
    /\ H # initH

\* sum of the absolute values of the row v
AbsSum(v) == SumTo([x \in DOMAIN v |-> RAbs(v[x])], VLen(v))
\* the residual W.H - A of the factors the last call returned
Residual == ESub(Array(MatMul(lastCall.W, lastCall.H)), data)

\* C17: for each band, the residual diagnostic deblend computes after the
\* last iteration is the sum of the absolute values of (W.H - A)[band]
\* divided by the sum of the absolute values of A[band] (that fraction, or
\* the same fraction as the percentage the log line prints).
C17_ResidualIsAbsFraction ==
    pc = "done" =>
        \E res \in {Array(Residual)} :
            \A b \in DOMAIN data :
                \/ lastCall.residual[b] = RDiv(AbsSum(res[b]), AbsSum(data[b]))
                \/ lastCall.residual[b] =
                      RMul(R(100), RDiv(AbsSum(res[b]), AbsSum(data[b])))

\* the range [AxisMin, AxisMax) of an axis of length size for the peak
\* coordinate p is as C18 describes it
RangeAsClaimed(p, size) ==
    /\ 2 * p < size - 1 => (AxisMin(p, size) = 0 /\ AxisMax(p, size) = 2 * p + 1)
    /\ 2 * p > size - 1 =>
          (AxisMin(p, size) = 2 * p - size + 1 /\ AxisMax(p, size) = size)
    /\ 2 * p = size - 1 => (AxisMin(p, size) = 0 /\ AxisMax(p, size) = size)
    /\ 0 <= AxisMin(p, size)
    /\ AxisMin(p, size) < AxisMax(p, size)
    /\ AxisMax(p, size) <= size
    /\ AxisMin(p, size) + AxisMax(p, size) - 1 = 2 * p
    /\ \A lo \in 0..size : \A hi \in 0..size :
          (lo < hi /\ lo + hi - 1 = 2 * p) =>
              hi - lo <= AxisMax(p, size) - AxisMin(p, size)

\* C18: for each axis and every peak coordinate in [0, size) the range of
\* getPeakSymmetryOperator is [0, 2.peak+1) left of the midpoint,
\* [2.peak-size+1, size) right of it and [0, size) on it; 0 <= min < max <=
\* size, min + max - 1 = 2.peak, and no larger range within the grid is
\* centred on the peak.
C18_RangeCentredAndLargest ==
    \A k \in DOMAIN peaks :
        /\ RangeAsClaimed(peaks[k][1], fpShape[2])
        /\ RangeAsClaimed(peaks[k][2], fpShape[1])

\* the operator was built for a peak left of the midpoint in x and right of
\* it in y, and its block starts in row ymin of the grid, at column xmin
C18_Witness ==
    /\ pc = "peakDone"
    /\ 2 * peaks[0][1] < fpShape[2] - 1
    /\ 2 * peaks[0][2] > fpShape[1] - 1
    /\ AxisMin(peaks[0][2], fpShape[1]) > 0
    /\ \E c \in DOMAIN symmetryOp[0] :
          symmetryOp[0][AxisMin(peaks[0][2], fpShape[1]) * fpShape[2]
                        + AxisMin(peaks[0][1], fpShape[2])][c] = 1

\* the transpose of an integer matrix
ITranspose(X) == [j \in DOMAIN X[0] |-> [i \in DOMAIN X |-> X[i][j]]]
\* I + St.S - 2.S for a square integer matrix S
PenaltyOf(S) ==
    LET StS == IMatMul(ITranspose(S), S)
    IN  [i \in DOMAIN S |-> [j \in DOMAIN S |->
            (IF i = j THEN 1 ELSE 0) + StS[i][j] - 2 * S[i][j]]]

\* C19: for every grid shape and peak position the operator
\* getSymmetryDiffOp returns for source s is I + St.S - 2.S, S being the
\* operator getSymmetryOperator builds for that source.
C19_DiffOpIsQuadraticPenalty ==
    pc = "diffDone" =>
        /\ DOMAIN diffOp = DOMAIN symmetryOp
        /\ \A k \in DOMAIN diffOp : diffOp[k] = PenaltyOf(symmetryOp[k])

\* the difference operator of an off-centre peak, whose S is not an
\* involution: S.S is not the identity
C19_Witness ==
    /\ pc = "diffDone"
    /\ ~Centred(fpShape, peaks[0])
    /\ Pixels(fpShape) >= 4
    /\ IMatMul(symmetryOp[0], symmetryOp[0]) # Eye(NRows(symmetryOp[0]))
    /\ \E i \in DOMAIN diffOp[0] : \E j \in DOMAIN diffOp[0] : diffOp[0][i][j] = -2
    /\ diffOp[0] = PenaltyOf(symmetryOp[0])

\* the background row of the H the rule under way returns for the penalty
\* weight beta
BkgRowFor(beta) ==
    IF nmfUpdateFunc = "multiplicativeUpdate"
    THEN multiplicativeUpdate(data, W, H, offset, includeBkg, beta,
                              updateKwargs.diffOp).H[NRows(H) - 1]
    ELSE gradientDescent(data, W, H, offset, includeBkg, updateKwargs.stepW,
                         updateKwargs.stepH, beta, updateKwargs.diffOp).H[NRows(H) - 1]
\* an update with a symmetry penalty is due on an H with a background row
PenalisedBkgDue ==
    /\ pc = "loop" /\ iter < steps
    /\ nmfUpdateFunc \in {"multiplicativeUpdate", "gradientDescent"}
    /\ updateKwargs.diffOp # None
    /\ includeBkg

\* C20: when a background row is present getIntensityDiff returns an
\* all-zero penalty row for it, for every H and offset, so the update of
\* the background row by multiplicativeUpdate and gradientDescent is the
\* same for every beta.
C20_BackgroundUnpenalised ==
    PenalisedBkgDue =>
        /\ ~DotFails(H, updateKwargs.diffOp)
        /\ ZeroRow(getIntensityDiff(H, updateKwargs.diffOp)[NRows(H) - 1])
        /\ \A beta \in {Zero, R(2)} : BkgRowFor(beta) = BkgRowFor(One)

\* every zero entry of X is a zero entry of Y
ZerosKept(X, Y) ==
    \A i \in DOMAIN X : \A j \in DOMAIN X[i] : X[i][j] = Zero => Y[i][j] = Zero

\* C21: zero entries are absorbing under multiplicativeUpdate: an entry of
\* W or H that is 0 is still 0 after any number of iterations, for every A,
\* beta and diffOp; with no offset applied and includeBkg set, the
\* background row of H seeded by createInitWH is all zero and stays so.
C21_ZerosAbsorbing ==
    /\ [][(Running("multiplicativeUpdate") /\ pc = "loop" /\ pc' = "loop") =>
              (ZerosKept(W, W') /\ ZerosKept(H, H'))]_vars
    /\ []((pc # "start" /\ includeBkg /\ offset = Zero) =>
              ZeroRow(initH[NRows(initH) - 1]))
    /\ []((Running("multiplicativeUpdate") /\ includeBkg /\ offset = Zero) =>
              ZeroRow(H[NRows(H) - 1]))

\* C22: ExposureDeblend.deblend processes exactly the catalog sources with
\* more than one peak, and for every condition the result stored in
\* deblendedParents under a source's id is the deblend of that source's own
\* footprint and peaks.
C22_OwnFootprintDeblended ==
    /\ (pc \in {"catalog", "done"} /\ exposure # None) =>
          \A i \in DOMAIN exposure.mergedDet :
              SourceId(i) \in DOMAIN exposure.deblendedParents =>
                  exposure.deblendedParents[SourceId(i)] = i
    /\ (pc = "done" /\ exposure # None) =>
          DOMAIN exposure.deblendedParents =
              {SourceId(i) : i \in {j \in DOMAIN exposure.mergedDet :
                                        exposure.mergedDet[j] > 1}}
    /\ exposure # None => err # "IndexError"

\* the W step of gradient descent taken at the input iterate:
\* W - stepW.(W.H - A).Ht with the H the call was given
WStepAtInput(A, Wm, Hm, stepW) ==
    ESub(Wm, Scale(Array(MatMul(Array(ESub(Array(MatMul(Wm, Hm)), A)), Transpose(Hm))), stepW))
\* the H step of gradient descent taken at the input iterate:
\* H - stepH.(Wt.(W.H - A) + beta.Hdiff)
HStepAtInput(A, Wm, Hm, stepH, beta, dOp) ==
    ESub(Hm, Scale(Array(derivHOf(Wm, Hm, Array(ESub(Array(MatMul(Wm, Hm)), A)), beta, dOp)),
                   stepH))

\* C23: in one gradientDescent call both gradient steps are evaluated at the
\* input iterate (W, H): the returned H is H - stepH.(Wt.(W.H - A) +
\* beta.Hdiff) and the returned W is W - stepW.(W.H - A).Ht with the input
\* H, not the H updated in the same call.
C23_BothStepsAtInput ==
    [][(nmfUpdateFunc = "gradientDescent" /\ pc = "loop" /\ iter' = iter + 1) =>
          /\ H' = HStepAtInput(data, W, H, updateKwargs.stepH, updateKwargs.beta,
                               updateKwargs.diffOp)
          /\ W' = WStepAtInput(data, W, H, updateKwargs.stepW)]_vars

\* C24: no state is carried between deblend calls: a call made with display
\* enabled and no displayKwargs argument plots band index 0 with the vmin
\* and vmax limits of the object it is called on, whatever calls happened
\* before it.
C24_OwnLimitsPlotted ==
    calls # None =>
        \A c \in Callers :
            (calls[c].pc = "shown" /\ calls[c].default) =>
                /\ calls[c].plotted["fidx"] = 0
                /\ calls[c].imgLimits =>
                      /\ calls[c].plotted["vmin"] = vminDict(calls[c].self, 0)
                      /\ calls[c].plotted["vmax"] = 10 * vmaxDict(calls[c].self, 0)

====
